---- MODULE Spec2Model ----
(***************************************************************************)
(* Reference-frame utilities of smd (cmd/refframes): chgframe.py,          *)
(* heliostate.py, utils.py, horizon.py and their unit tests.               *)
(*                                                                         *)
(* Python strings that the code inspects (frame names, planet names, the  *)
(* --state and --reso arguments) are sequences of one-character strings,  *)
(* so that startswith, endswith, slicing, lower() and split() are          *)
(* computed as the code computes them.  State vectors are sequences of    *)
(* six integers and the arithmetic on them is exact.                       *)
(***************************************************************************)
EXTENDS Integers, Sequences, FiniteSets, TLC

VARIABLES
    furnished,   \* furnished[m][k]: spice.furnsh calls module m made for kernel k
    loaded,      \* loaded[m]: the module global __kernels_loaded__ of module m
    last,        \* the most recent call of a public function and what it did
    cli,         \* the run of chgframe.py's __main__ block
    hz           \* the run of horizon.py's __main__ block

vars == <<furnished, loaded, last, cli, hz>>

(***************************************************************************)
(* Bounds of the model.                                                    *)
(***************************************************************************)
MaxFurnish == 2        \* furnsh calls of a kernel after which a module is left alone
MonthsPerYear == 2     \* months of a model year
DaysPerMonth == 1      \* days of a model month (the leap day comes on top)

(***************************************************************************)
(* Python string operations.                                               *)
(***************************************************************************)
UpperAlpha == <<"A","B","C","D","E","F","G","H","I","J","K","L","M",
                "N","O","P","Q","R","S","T","U","V","W","X","Y","Z">>
LowerAlpha == <<"a","b","c","d","e","f","g","h","i","j","k","l","m",
                "n","o","p","q","r","s","t","u","v","w","x","y","z">>

\* the lower-case letter of every upper-case letter
LowerOf == [c \in {UpperAlpha[i] : i \in 1..26} |->
               LowerAlpha[CHOOSE i \in 1..26 : UpperAlpha[i] = c]]

LowerChar(c) == IF c \in DOMAIN LowerOf THEN LowerOf[c] ELSE c

RECURSIVE Lower(_)
\* str.lower()
Lower(s) == IF s = <<>> THEN <<>> ELSE <<LowerChar(Head(s))>> \o Lower(Tail(s))

\* str.startswith(p)
StartsWith(s, p) == Len(s) >= Len(p) /\ SubSeq(s, 1, Len(p)) = p

\* str.endswith(p)
EndsWith(s, p) == Len(s) >= Len(p) /\ SubSeq(s, Len(s) - Len(p) + 1, Len(s)) = p

\* s[n:]
From(s, n) == SubSeq(s, n + 1, Len(s))

\* s[:n] for 0 <= n
Upto(s, n) == SubSeq(s, 1, IF n < Len(s) THEN n ELSE Len(s))

(***************************************************************************)
(* Names used by the code and by the callers of the model.                 *)
(***************************************************************************)
IAU == <<"I","A","U","_">>
J2000 == <<"J","2","0","0","0">>
EclipJ2000 == <<"E","c","l","i","p">> \o J2000
ECLIPJ2000 == <<"E","C","L","I","P">> \o J2000
B1950 == <<"B","1","9","5","0">>
Earth == <<"E","a","r","t","h">>
Mars == <<"M","a","r","s">>
mArS == <<"m","A","r","S">>
Jupiter == <<"J","u","p","i","t","e","r">>
Vulcan == <<"V","u","l","c","a","n">>
mars == <<"m","a","r","s">>
jupiter == <<"j","u","p","i","t","e","r">>
saturn == <<"s","a","t","u","r","n">>
neptune == <<"n","e","p","t","u","n","e">>
uranus == <<"u","r","a","n","u","s">>
pluto == <<"p","l","u","t","o">>
barycenter == <<"_","b","a","r","y","c","e","n","t","e","r">>
Mars_barycenter == Mars \o barycenter
iau == <<"i","a","u","_">>
j2000 == <<"j","2","0","0","0">>
eclipj2000 == <<"e","c","l","i","p">> \o j2000
b1950 == <<"b","1","9","5","0">>
earth == <<"e","a","r","t","h">>
Sun == <<"S","u","n">>
None == <<"N","o","n","e">>

\* utils.py: BARYCENTER_FRAMES
BARYCENTER_FRAMES == {mars, jupiter, saturn, neptune, uranus, pluto}

Modules == {"chgframe", "heliostate", "utils"}

\* krnls, the list every loader furnishes
krnls == <<"de430.bsp", "naif0012.tls", "pck00010.tpc">>
Kernels == {krnls[i] : i \in 1..Len(krnls)}

(***************************************************************************)
(* 3-vectors, 3x3 matrices and six-component states (numpy).               *)
(***************************************************************************)
Dot3(a, b) == a[1] * b[1] + a[2] * b[2] + a[3] * b[3]

\* numpy: m.dot(v)
MatVec(m, v) == <<Dot3(m[1], v), Dot3(m[2], v), Dot3(m[3], v)>>

Col(m, j) == <<m[1][j], m[2][j], m[3][j]>>

Transpose(m) == <<Col(m, 1), Col(m, 2), Col(m, 3)>>

RowMat(r, b) == <<Dot3(r, Col(b, 1)), Dot3(r, Col(b, 2)), Dot3(r, Col(b, 3))>>

MatMul(a, b) == <<RowMat(a[1], b), RowMat(a[2], b), RowMat(a[3], b)>>

Cross(a, b) == <<a[2] * b[3] - a[3] * b[2],
                 a[3] * b[1] - a[1] * b[3],
                 a[1] * b[2] - a[2] * b[1]>>

\* numpy: a + b and a - b on arrays of equal length
RECURSIVE VecAdd(_, _)
VecAdd(a, b) == IF a = <<>> THEN <<>>
                ELSE <<Head(a) + Head(b)>> \o VecAdd(Tail(a), Tail(b))

RECURSIVE VecSub(_, _)
VecSub(a, b) == IF a = <<>> THEN <<>>
                ELSE <<Head(a) - Head(b)>> \o VecSub(Tail(a), Tail(b))

\* cosine and sine of k quarter turns
Cos(k) == <<1, 0, -1, 0>>[(k % 4) + 1]
Sin(k) == <<0, 1, 0, -1>>[(k % 4) + 1]

\* rotations by k quarter turns about the z, x and y axes
Rz(k) == <<<<Cos(k), -Sin(k), 0>>,
           <<Sin(k), Cos(k), 0>>,
           <<0, 0, 1>>>>
Rx(k) == <<<<1, 0, 0>>,
           <<0, Cos(k), -Sin(k)>>,
           <<0, Sin(k), Cos(k)>>>>
Ry(k) == <<<<Cos(k), 0, Sin(k)>>,
           <<0, 1, 0>>,
           <<-Sin(k), 0, Cos(k)>>>>

(***************************************************************************)
(* Calendar: a year has MonthsPerYear months of DaysPerMonth days, and its *)
(* second month has one more day in a leap year.                           *)
(***************************************************************************)
SecondsPerDay == 86400
SecondsPerMinute == 60
FirstYear == 2000

IsLeap(y) == y % 4 = 0 /\ (y % 100 # 0 \/ y % 400 = 0)

DaysInMonth(y, m) == DaysPerMonth + (IF m = 2 /\ IsLeap(y) THEN 1 ELSE 0)

DaysInYear(y) == MonthsPerYear * DaysPerMonth + (IF IsLeap(y) THEN 1 ELSE 0)

\* the leap years before year y, counted from year 1
LeapsTo(y) == (y - 1) \div 4 - (y - 1) \div 100 + (y - 1) \div 400

\* the days from the start of FirstYear to the start of year y >= FirstYear
DaysBeforeYear(y) ==
    (y - FirstYear) * MonthsPerYear * DaysPerMonth + LeapsTo(y) - LeapsTo(FirstYear)

\* the days from the start of year y to the start of its month m
DaysBeforeMonth(y, m) ==
    (m - 1) * DaysPerMonth + (IF m > 2 /\ IsLeap(y) THEN 1 ELSE 0)

\* a datetime: the fields the code reads
DateTime(y, mo, d, h, mi, s) ==
    [year |-> y, month |-> mo, day |-> d, hour |-> h, minute |-> mi,
     second |-> s, microsecond |-> 0]

ValidDate(dt) ==
    /\ dt.year >= FirstYear
    /\ dt.month \in 1..MonthsPerYear
    /\ dt.day \in 1..DaysInMonth(dt.year, dt.month)
    /\ dt.hour \in 0..23 /\ dt.minute \in 0..59 /\ dt.second \in 0..59

\* seconds from the start of FirstYear to dt
Ordinal(dt) ==
    (DaysBeforeYear(dt.year) + DaysBeforeMonth(dt.year, dt.month) + dt.day - 1)
        * SecondsPerDay
    + dt.hour * 3600 + dt.minute * SecondsPerMinute + dt.second

\* the year that day number `days` of the calendar lies in
YearOf(days) ==
    CHOOSE y \in FirstYear..(FirstYear + days \div (MonthsPerYear * DaysPerMonth)) :
        DaysBeforeYear(y) <= days /\ days < DaysBeforeYear(y + 1)

\* the month that day number `days` of year y lies in
MonthOf(days, y) ==
    CHOOSE m \in 1..MonthsPerYear :
        DaysBeforeMonth(y, m) <= days /\ days < DaysBeforeMonth(y, m) + DaysInMonth(y, m)

\* the datetime that lies n >= 0 seconds after the start of FirstYear
FromOrdinal(n) ==
    LET days == n \div SecondsPerDay
        secs == n % SecondsPerDay
        y == YearOf(days)
        dy == days - DaysBeforeYear(y)
        mo == MonthOf(dy, y)
    IN  DateTime(y, mo, dy - DaysBeforeMonth(y, mo) + 1,
                 secs \div 3600, (secs % 3600) \div SecondsPerMinute,
                 secs % SecondsPerMinute)

\* dateutil: parse('{}-01-01'.format(year))
parsedt(year) == DateTime(year, 1, 1, 0, 0, 0)

\* datetime + timedelta(seconds=n)
AddSeconds(dt, n) == FromOrdinal(Ordinal(dt) + n)

(***************************************************************************)
(* The toolkit (spiceypy), as far as the code calls it.  Names are         *)
(* resolved without regard to case; a name or a body the loaded kernels   *)
(* do not cover makes the call raise.                                      *)
(***************************************************************************)
Failed == [ok |-> FALSE, value |-> <<>>]
Ok(v) == [ok |-> TRUE, value |-> v]

\* spice.str2et: seconds past the J2000 epoch (noon of the first day of
\* FirstYear); a text that is no date raises
str2et(text) ==
    IF ValidDate(text) THEN Ok(Ordinal(text) - SecondsPerDay \div 2) ELSE Failed

\* NAIF codes of the body names the model uses (0: no such name)
PlanetNames == <<mars, jupiter, saturn, uranus, neptune, pluto>>

bodn2c(name) ==
    LET l == Lower(name) IN
    IF l = earth THEN 399
    ELSE IF l = Lower(Sun) THEN 10
    ELSE IF \E i \in 1..6 : l = PlanetNames[i]
         THEN (CHOOSE i \in 1..6 : l = PlanetNames[i]) * 100 + 399
    ELSE IF \E i \in 1..6 : l = PlanetNames[i] \o barycenter
         THEN (CHOOSE i \in 1..6 : l = PlanetNames[i] \o barycenter) + 3
    ELSE 0

\* the bodies de430.bsp has data for: the barycenters 1..9, the Sun,
\* Mercury, Venus, the Moon and the Earth
De430Bodies == (1..10) \cup {199, 299, 301, 399}

\* the bodies pck00010.tpc gives an IAU_ frame for
PckBodies == {399, 499, 599, 699, 799, 899, 999}

\* a frame name the toolkit knows: "inertial", "rotating", or "unknown"
FrameClass(frame) ==
    LET l == Lower(frame) IN
    IF l \in {j2000, eclipj2000, b1950} THEN "inertial"
    ELSE IF StartsWith(l, iau) /\ bodn2c(From(l, 4)) \in PckBodies
         THEN "rotating"
    ELSE "unknown"

\* the rotation from a known frame to J2000 at et
Orientation(frame, et) ==
    LET l == Lower(frame)
        turn == (et \div (SecondsPerDay \div 4)) % 4
    IN  IF l = j2000 THEN Rz(0)
        ELSE IF l = eclipj2000 THEN Rx(1)
        ELSE IF l = b1950 THEN Ry(1)
        ELSE IF bodn2c(From(l, 4)) = 399 THEN Rz(turn)
        ELSE MatMul(Rx(1), Rz(turn + bodn2c(From(l, 4)) \div 100))

\* spice.pxform(fromFrame, toFrame, et)
pxform(fromFrame, toFrame, et) ==
    IF FrameClass(fromFrame) = "unknown" \/ FrameClass(toFrame) = "unknown"
    THEN Failed
    ELSE Ok(MatMul(Transpose(Orientation(toFrame, et)), Orientation(fromFrame, et)))

\* position and velocity of a body relative to the Sun (body 10), in J2000
EphemerisJ2000(id, et) ==
    LET k == (id % 10) + 1
        day == et \div SecondsPerDay
    IN  IF id = 10 THEN <<0, 0, 0, 0, 0, 0>>
        ELSE <<10 * k + day, 3 * k - 2 * day, k, -k, 2 * k + day, 1>>

\* spice.spkezr(targ, et, ref, abcorr, obs)[0], for abcorr = 'None'
spkezr(targ, et, ref, abcorr, obs) ==
    IF \/ bodn2c(targ) \notin De430Bodies
       \/ bodn2c(obs) \notin De430Bodies
       \/ FrameClass(ref) = "unknown"
    THEN Failed
    ELSE LET e == VecSub(EphemerisJ2000(bodn2c(targ), et),
                         EphemerisJ2000(bodn2c(obs), et))
             r == Transpose(Orientation(ref, et))
             pos == MatVec(r, SubSeq(e, 1, 3))
             vel == MatVec(r, SubSeq(e, 4, 6))
             spin == IF FrameClass(ref) = "rotating" THEN <<0, 0, 1>> ELSE <<0, 0, 0>>
         IN  Ok(pos \o VecSub(vel, Cross(spin, pos)))

(***************************************************************************)
(* Kernel loading.  K is the pair of furnished and loaded.                 *)
(***************************************************************************)
\* for krnl in krnls: spice.furnsh(...)
FurnishAll(f, m) == [f EXCEPT ![m] = [k \in Kernels |-> @[k] + 1]]

\* chgframe.py: __load__kernels__ (the flag is read and never assigned)
ChgLoadKernels(K) ==
    IF K.loaded["chgframe"] THEN K
    ELSE [K EXCEPT !.furnished = FurnishAll(@, "chgframe")]

\* heliostate.py: __load__kernels__ (the flag is read and never assigned)
HelioLoadKernels(K) ==
    IF K.loaded["heliostate"] THEN K
    ELSE [K EXCEPT !.furnished = FurnishAll(@, "heliostate")]

\* utils.py: _load_kernels_
UtilsLoadKernels(K) ==
    IF K.loaded["utils"] THEN K
    ELSE [furnished |-> FurnishAll(K.furnished, "utils"),
          loaded |-> [K.loaded EXCEPT !["utils"] = TRUE]]

(***************************************************************************)
(* chgframe.py                                                             *)
(***************************************************************************)
NoName == <<>>
NoValue == <<>>

\* what a call did: how it ended ("value", "none", "error"), the value it
\* returned, the loader calls it made, and the spkezr query it made
Result(outcome, value, loads, query) ==
    [outcome |-> outcome, value |-> value, loads |-> loads, query |-> query]

\* the arguments of a spkezr call, and the record of a call that made none
Query(targ, ref, abcorr, obs) ==
    [made |-> TRUE, targ |-> targ, ref |-> ref, abcorr |-> abcorr, obs |-> obs]
NoQuery ==
    [made |-> FALSE, targ |-> NoName, ref |-> NoName, abcorr |-> NoName, obs |-> NoName]

\* DCM, after its loader call
DCM(fromFrame, toFrame, dt) == pxform(fromFrame, toFrame, dt)

\* the body name ChgFrame passes to spkezr for the name cut from a frame
ChgTarget(target) == IF Lower(target) = mars THEN Mars_barycenter ELSE target

\* the origin subtracted instead of added
PlanetoToHelioSubtracted(stateRotd, origin) == VecSub(stateRotd, origin)

\* return stateRotd + origin
PlanetoToHelio(stateRotd, origin) == VecAdd(stateRotd, origin)

\* the origin subtracted without rotating it into toFrame
HelioToPlanetoUnrotated(position, velocity, dcm, origin) ==
    VecSub(position, Upto(origin, 3)) \o VecSub(velocity, From(origin, 3))

\* position - dcm.dot(origin[:3]), velocity - dcm.dot(origin[3:])
HelioToPlaneto(position, velocity, dcm, origin) ==
    VecSub(position, MatVec(dcm, Upto(origin, 3)))
        \o VecSub(velocity, MatVec(dcm, From(origin, 3)))

ChgFrame(state, fromFrame, toFrame, dt0) ==
    LET e == IF dt0.isStr THEN str2et(dt0.text) ELSE Ok(dt0.et) IN
    IF ~e.ok THEN Result("error", NoValue, 1, NoQuery)
    ELSE
    LET dt == e.value
        d == DCM(fromFrame, toFrame, dt)
    IN
    IF ~d.ok THEN Result("error", NoValue, 2, NoQuery)
    ELSE
    LET dcm == d.value
        position == MatVec(dcm, Upto(state, 3))
        velocity == MatVec(dcm, From(state, 3))
        stateRotd == position \o velocity
    IN
    IF StartsWith(fromFrame, IAU)
    THEN LET target == ChgTarget(From(fromFrame, 4))
             origin == spkezr(target, dt, toFrame, None, Sun)
         IN  IF ~origin.ok
             THEN Result("error", NoValue, 2, Query(target, toFrame, None, Sun))
             ELSE Result("value", PlanetoToHelio(stateRotd, origin.value),
                         2, Query(target, toFrame, None, Sun))
    ELSE IF EndsWith(fromFrame, J2000)
    THEN LET target == ChgTarget(From(toFrame, 4))
             origin == spkezr(target, dt, fromFrame, None, Sun)
         IN  IF ~origin.ok
             THEN Result("error", NoValue, 2, Query(target, fromFrame, None, Sun))
             ELSE Result("value",
                         HelioToPlaneto(position, velocity, dcm, origin.value),
                         2, Query(target, fromFrame, None, Sun))
    ELSE Result("none", NoValue, 2, NoQuery)

(***************************************************************************)
(* heliostate.py and utils.py                                              *)
(***************************************************************************)
\* heliostate.py: the planet name after "Parse the planet name"
HelioTarget(planet) == IF Lower(planet) = mars THEN Mars_barycenter ELSE planet

\* the lookup done without lower-casing the name
UtilsTargetCaseSensitive(planet) ==
    IF planet \in BARYCENTER_FRAMES THEN planet \o barycenter ELSE planet

\* utils.py: the planet name after "Parse the planet name"
UtilsTarget(planet) ==
    IF Lower(planet) \in BARYCENTER_FRAMES THEN planet \o barycenter ELSE planet

\* the body of PlanetState in both modules, from the str2et call on, with
\* the planet name as the module has substituted it
SunState(planet, epoch0) ==
    LET e == IF epoch0.isStr THEN str2et(epoch0.text) ELSE Ok(epoch0.et) IN
    IF ~e.ok THEN Result("error", NoValue, 1, NoQuery)
    ELSE LET s == spkezr(planet, e.value, ECLIPJ2000, None, Sun)
         IN  Result(IF s.ok THEN "value" ELSE "error", s.value, 1,
                    Query(planet, ECLIPJ2000, None, Sun))

\* heliostate.py: PlanetState, after its loader call
HelioPlanetState(planet, epoch) == SunState(HelioTarget(planet), epoch)

\* utils.py: PlanetState, after its loader call
UtilsPlanetState(planet, epoch) == SunState(UtilsTarget(planet), epoch)

(***************************************************************************)
(* Calls of the public functions.                                          *)
(***************************************************************************)
\* an epoch argument: a date string or a float
Text(d) == [isStr |-> TRUE, text |-> d, et |-> 0]
Et(n) == [isStr |-> FALSE, text |-> DateTime(0, 0, 0, 0, 0, 0), et |-> n]

InputStates == {<<1, 0, 0, 0, 1, 0>>, <<2, -1, 3, 1, 0, -2>>}

InputFrames == {IAU \o Earth, IAU \o mArS, IAU \o Jupiter, IAU \o J2000,
                J2000, EclipJ2000, B1950}

DcmFrames == {IAU \o Earth, IAU \o Vulcan, EclipJ2000}

InputPlanets == {Earth, earth, Mars, mArS, Jupiter, pluto, Vulcan}

InputEpochs == {Text(DateTime(2016, 1, 1, 20, 41, 48)),
                Text(DateTime(2016, 0, 1, 0, 0, 0)),
                Et(30000)}

\* the frames the tests convert IAU_Earth states to and back
TestFrames == {J2000, EclipJ2000}

Call(fn, state, fromFrame, toFrame, dt, planet, st, res) ==
    [fn |-> fn, state |-> state, fromFrame |-> fromFrame, toFrame |-> toFrame,
     dt |-> dt, planet |-> planet, st |-> st, res |-> res]

NoCall == Call("none", NoValue, NoName, NoName, Et(0), NoName, NoValue,
               Result("none", NoValue, 0, NoQuery))

CliIdle == [pc |-> "idle", args |-> <<>>, components |-> <<>>, state |-> <<>>,
            exc |-> "", calls |-> 0, printed |-> <<>>]
HzIdle == [pc |-> "idle"]

K0 == [furnished |-> [m \in Modules |-> [k \in Kernels |-> 0]],
       loaded |-> [m \in Modules |-> FALSE]]

Kernel == [furnished |-> furnished, loaded |-> loaded]

\* the model follows a module until it has furnished a kernel MaxFurnish times
Followed(m) == \A k \in Kernels : furnished[m][k] < MaxFurnish

SetKernel(K) == furnished' = K.furnished /\ loaded' = K.loaded

\* the loader of chgframe.py called n times in a row, n <= 4
ChgLoads(n, K) ==
    LET K1 == IF n >= 1 THEN ChgLoadKernels(K) ELSE K
        K2 == IF n >= 2 THEN ChgLoadKernels(K1) ELSE K1
        K3 == IF n >= 3 THEN ChgLoadKernels(K2) ELSE K2
    IN  IF n >= 4 THEN ChgLoadKernels(K3) ELSE K3

\* chgframe.DCM(fromFrame, toFrame, dt)
CallDCM(fromFrame, toFrame, dt) ==
    LET d == DCM(fromFrame, toFrame, dt.et)
        K == ChgLoads(1, Kernel)
    IN  /\ Followed("chgframe")
        /\ SetKernel(K)
        /\ last' = Call("DCM", NoValue, fromFrame, toFrame, dt, NoName, NoValue,
                        Result(IF d.ok THEN "value" ELSE "error", d.value, 1, NoQuery))
        /\ UNCHANGED <<cli, hz>>

\* chgframe.ChgFrame(state, fromFrame, toFrame, dt)
CallChgFrame(state, fromFrame, toFrame, dt) ==
    LET r == ChgFrame(state, fromFrame, toFrame, dt)
        K == ChgLoads(r.loads, Kernel)
    IN  /\ Followed("chgframe")
        /\ SetKernel(K)
        /\ last' = Call("ChgFrame", state, fromFrame, toFrame, dt, NoName, NoValue, r)
        /\ UNCHANGED <<cli, hz>>

\* tests.py, test_chgframe.py: st = ChgFrame(state, 'IAU_Earth', F, epoch),
\* then revst = ChgFrame(st, F, 'IAU_Earth', epoch)
TestReversibility(state, F, epoch) ==
    LET r1 == ChgFrame(state, IAU \o Earth, F, epoch)
        r2 == ChgFrame(r1.value, F, IAU \o Earth, epoch)
        K == ChgLoads(IF r1.outcome = "value" THEN r1.loads + r2.loads ELSE r1.loads,
                      Kernel)
    IN  /\ Followed("chgframe")
        /\ SetKernel(K)
        /\ last' = IF r1.outcome = "value"
                   THEN Call("test", state, IAU \o Earth, F, epoch, NoName, r1.value, r2)
                   ELSE Call("test", state, IAU \o Earth, F, epoch, NoName, NoValue, r1)
        /\ UNCHANGED <<cli, hz>>

\* heliostate.PlanetState(planet, epoch)
CallHelioPlanetState(planet, epoch) ==
    LET K == HelioLoadKernels(Kernel) IN
    /\ Followed("heliostate")
    /\ SetKernel(K)
    /\ last' = Call("heliostate.PlanetState", NoValue, NoName, NoName, epoch, planet,
                    NoValue, HelioPlanetState(planet, epoch))
    /\ UNCHANGED <<cli, hz>>

\* utils.PlanetState(planet, epoch)
CallUtilsPlanetState(planet, epoch) ==
    LET K == UtilsLoadKernels(Kernel) IN
    /\ Followed("utils")
    /\ SetKernel(K)
    /\ last' = Call("utils.PlanetState", NoValue, NoName, NoName, epoch, planet,
                    NoValue, UtilsPlanetState(planet, epoch))
    /\ UNCHANGED <<cli, hz>>

\* utils._load_kernels_()
CallUtilsLoadKernels ==
    /\ Followed("utils")
    /\ SetKernel(UtilsLoadKernels(Kernel))
    /\ last' = Call("utils._load_kernels_", NoValue, NoName, NoName, Et(0), NoName,
                    NoValue, Result("none", NoValue, 1, NoQuery))
    /\ UNCHANGED <<cli, hz>>

Init ==
    /\ furnished = K0.furnished
    /\ loaded = K0.loaded
    /\ last = NoCall
    /\ cli = CliIdle
    /\ hz = HzIdle

NextChgFrame ==
    \/ \E f \in DcmFrames, t \in DcmFrames, dt \in {e \in InputEpochs : ~e.isStr} :
           CallDCM(f, t, dt)
    \/ \E s \in InputStates, f \in InputFrames, t \in InputFrames, dt \in InputEpochs :
           CallChgFrame(s, f, t, dt)
    \/ \E s \in InputStates, F \in TestFrames, dt \in InputEpochs :
           TestReversibility(s, F, dt)

\* a session of calls of chgframe's functions, the unit tests' among them
SpecChgFrame == Init /\ [][NextChgFrame]_vars

NextPlanetState ==
    \/ \E p \in InputPlanets, dt \in InputEpochs : CallHelioPlanetState(p, dt)
    \/ \E p \in InputPlanets, dt \in InputEpochs : CallUtilsPlanetState(p, dt)
    \/ CallUtilsLoadKernels

\* a session of calls of the functions of heliostate and utils
SpecPlanetState == Init /\ [][NextPlanetState]_vars

(***************************************************************************)
(* chgframe.py run as a program.                                           *)
(***************************************************************************)
\* s[1:-1]
Inner(s) == IF Len(s) <= 2 THEN <<>> ELSE SubSeq(s, 2, Len(s) - 1)

RECURSIVE Find(_, _, _)
\* the first index from i on at which c stands in s, or 0
Find(s, c, i) == IF i > Len(s) THEN 0
                 ELSE IF s[i] = c THEN i
                 ELSE Find(s, c, i + 1)

RECURSIVE Split(_, _)
\* s.split(sep) for a one-character sep
Split(s, sep) ==
    IF Find(s, sep, 1) = 0 THEN <<s>>
    ELSE <<SubSeq(s, 1, Find(s, sep, 1) - 1)>> \o Split(From(s, Find(s, sep, 1)), sep)

RECURSIVE LStrip(_)
LStrip(s) == IF s # <<>> /\ Head(s) = " " THEN LStrip(Tail(s)) ELSE s

RECURSIVE RStrip(_)
RStrip(s) == IF s # <<>> /\ s[Len(s)] = " " THEN RStrip(Upto(s, Len(s) - 1)) ELSE s

\* s.strip()
Strip(s) == RStrip(LStrip(s))

Digits == <<"0","1","2","3","4","5","6","7","8","9">>

IsDigit(c) == Find(Digits, c, 1) # 0

\* the digits of a signed number
Unsigned(s) == IF s # <<>> /\ Head(s) \in {"-", "+"} THEN Tail(s) ELSE s

\* whether float(s) returns: an optional sign and decimal digits, for the
\* strings of digits, signs, blanks and letters the model passes
IsFloat(s) ==
    /\ Unsigned(Strip(s)) # <<>>
    /\ \A i \in 1..Len(Unsigned(Strip(s))) : IsDigit(Unsigned(Strip(s))[i])

RECURSIVE Decimal(_)
\* the value of a string of decimal digits
Decimal(s) == IF s = <<>> THEN 0
              ELSE 10 * Decimal(Upto(s, Len(s) - 1)) + (Find(Digits, s[Len(s)], 1) - 1)

\* float(s), when it returns
Float(s) == IF Head(Strip(s)) = "-" THEN -Decimal(Unsigned(Strip(s)))
            ELSE Decimal(Unsigned(Strip(s)))

\* len(state) != 6 tested as len(state) < 6
WrongLengthShort(state) == Len(state) < 6

\* if len(state) != 6: raise ValueError
WrongLength(state) == Len(state) # 6

StateArgs ==
    {<<"[","1",",","2",",","3",",","4",",","5",",","6","]">>,
     <<"[","1",","," ","-","2",",","3"," ",",","4",",","5",",","6","]">>,
     <<"(","6",",","5",",","4",",","3",",","2",",","1",")">>,
     <<"[","1",",","2",",","3",",","4",",","5","]">>,
     <<"[","1",",","2",",","3",",","4",",","5",",","6",",","7","]">>,
     <<"[","1",",","2",",","x",",","4",",","5",",","6","]">>,
     <<"[","1",",","2",",","3",",","4",",","5",",","6",",","]">>,
     <<"1",",","2",",","3",",","4",",","5",",","6">>,
     <<"1","2",",","2",",","3",",","4",",","5",",","6","1">>,
     <<"[","]">>,
     <<>>}

FrameArgs == {IAU \o Earth, EclipJ2000, B1950}

EpochArgs == {DateTime(2016, 1, 1, 20, 41, 48), DateTime(2016, 0, 1, 0, 0, 0)}

\* the parsed command line
Args(state, to, fromF, epoch) ==
    [state |-> state, to |-> to, fromF |-> fromF, epoch |-> epoch]

Main(pc, args, components, state, exc, calls, printed) ==
    [pc |-> pc, args |-> args, components |-> components, state |-> state,
     exc |-> exc, calls |-> calls, printed |-> printed]

\* __load__kernels__() and parser.parse_args()
MainStart ==
    /\ cli.pc = "start"
    /\ SetKernel(ChgLoads(1, Kernel))
    /\ cli' = [cli EXCEPT !.pc = "parse",
                          !.components = Split(Inner(cli.args.state), ",")]
    /\ UNCHANGED <<last, hz>>

\* one turn of the loop: state.append(float(component.strip()))
MainParseComponent ==
    /\ cli.pc = "parse"
    /\ Len(cli.state) < Len(cli.components)
    /\ LET component == cli.components[Len(cli.state) + 1] IN
       cli' = IF IsFloat(component)
              THEN [cli EXCEPT !.state = Append(@, Float(component))]
              ELSE [cli EXCEPT !.pc = "raised", !.exc = "ValueError"]
    /\ UNCHANGED <<furnished, loaded, last, hz>>

\* the loop is over: the length check
MainCheckLength ==
    /\ cli.pc = "parse"
    /\ Len(cli.state) = Len(cli.components)
    /\ cli' = IF WrongLength(cli.state)
              THEN [cli EXCEPT !.pc = "raised", !.exc = "ValueError"]
              ELSE [cli EXCEPT !.pc = "call"]
    /\ UNCHANGED <<furnished, loaded, last, hz>>

\* nState = ChgFrame(state, args.fromF, args.to, args.epoch)
MainChgFrame ==
    /\ cli.pc = "call"
    /\ LET r == ChgFrame(cli.state, cli.args.fromF, cli.args.to, Text(cli.args.epoch)) IN
       /\ SetKernel(ChgLoads(r.loads, Kernel))
       /\ last' = Call("ChgFrame", cli.state, cli.args.fromF, cli.args.to,
                       Text(cli.args.epoch), NoName, NoValue, r)
       /\ cli' = IF r.outcome = "error"
                 THEN [cli EXCEPT !.pc = "raised", !.exc = "SpiceyError", !.calls = @ + 1]
                 ELSE [cli EXCEPT !.pc = "print", !.calls = @ + 1]
    /\ hz' = hz

\* print([component for component in nState])
MainPrint ==
    /\ cli.pc = "print"
    /\ cli' = IF last.res.outcome = "none"
              THEN [cli EXCEPT !.pc = "raised", !.exc = "TypeError"]
              ELSE [cli EXCEPT !.pc = "done", !.printed = last.res.value]
    /\ UNCHANGED <<furnished, loaded, last, hz>>

InitMain ==
    /\ furnished = K0.furnished
    /\ loaded = K0.loaded
    /\ last = NoCall
    /\ hz = HzIdle
    /\ \E s \in StateArgs, t \in FrameArgs, f \in FrameArgs, e \in EpochArgs :
           cli = Main("start", Args(s, t, f, e), <<>>, <<>>, "", 0, NoValue)

NextMain ==
    \/ MainStart
    \/ MainParseComponent
    \/ MainCheckLength
    \/ MainChgFrame
    \/ MainPrint

\* one run of chgframe.py from the command line
SpecMain == InitMain /\ [][NextMain]_vars

(***************************************************************************)
(* horizon.py run as a program.  Of the file it writes, the model keeps   *)
(* the first row and the last two.                                         *)
(***************************************************************************)
\* whether int(s) returns, and its value: a sign and decimal digits, blanks
\* around them
IsInt(s) ==
    /\ Unsigned(Strip(s)) # <<>>
    /\ \A i \in 1..Len(Unsigned(Strip(s))) : IsDigit(Unsigned(Strip(s))[i])

IntOf(s) == IF Head(Strip(s)) = "-" THEN -Decimal(Unsigned(Strip(s)))
          ELSE Decimal(Unsigned(Strip(s)))

\* resolution_units, and the seconds timedelta makes of one such unit
resolution_units == {"d", "m", "s"}

UnitSeconds(unit) == IF unit = "d" THEN SecondsPerDay
                     ELSE IF unit = "m" THEN SecondsPerMinute
                     ELSE 1

\* int(args.reso[0])
ResoNum(reso) == IntOf(<<reso[1]>>)

\* spice.j2000() and spice.spd()
j2000_jd == 2451545
spd == 86400

\* a row of the file: jde (whole days and the seconds of the day), date_str
\* and the state; a row whose state was never written is not complete
Row(et, date, state, complete) ==
    [jde |-> [days |-> j2000_jd + et \div spd, seconds |-> et % spd],
     date |-> date, state |-> state, complete |-> complete]

NoDate == DateTime(0, 0, 0, 0, 0, 0)
NoRow == [jde |-> [days |-> 0, seconds |-> 0], date |-> NoDate, state |-> NoValue,
          complete |-> FALSE]

HzArgs(planet, year, reso) == [planet |-> planet, year |-> year, reso |-> reso]

Horizon(pc, args, exc, unit, reso_num, start_date, end_date, prev_month, first, prev, row) ==
    [pc |-> pc, args |-> args, exc |-> exc, unit |-> unit, reso_num |-> reso_num,
     start_date |-> start_date, end_date |-> end_date, prev_month |-> prev_month,
     first |-> first, prev |-> prev, row |-> row]

Raised(h, exc) == [h EXCEPT !.pc = "raised", !.exc = exc]

ResoArgs ==
    {<<"1","d">>,
     <<"2","d">>,
     <<"1","0","d">>,
     <<"0","d">>,
     <<"0","5","d">>,
     <<"9","0","m">>,
     <<"4","5","m">>,
     <<"1","h">>,
     <<"d">>,
     <<"-","1","d">>,
     <<>>}

YearArgs == {<<"2","0","1","5">>, <<"2","0","x","6">>}

PlanetArgs == {mArS, Vulcan}

\* from "Parse the resolution" to the open() before the loop
HorizonStart ==
    /\ hz.pc = "start"
    /\ LET reso == hz.args.reso
           unit == reso[Len(reso)]
       IN  IF reso = <<>> THEN
               /\ hz' = Raised(hz, "IndexError")
               /\ UNCHANGED <<furnished, loaded, last>>
           ELSE IF unit \notin resolution_units THEN
               /\ hz' = Raised(hz, "ValueError")
               /\ UNCHANGED <<furnished, loaded, last>>
           ELSE IF ~IsInt(<<reso[1]>>) \/ ~IsInt(hz.args.year) THEN
               /\ hz' = Raised(hz, "ValueError")
               /\ UNCHANGED <<furnished, loaded, last>>
           ELSE
               /\ hz' = [hz EXCEPT !.pc = "loop",
                                   !.unit = unit,
                                   !.reso_num = ResoNum(reso),
                                   !.start_date = parsedt(IntOf(hz.args.year)),
                                   !.end_date = parsedt(IntOf(hz.args.year) + 1),
                                   !.prev_month = 0]
               /\ SetKernel(UtilsLoadKernels(Kernel))
               /\ last' = Call("utils._load_kernels_", NoValue, NoName, NoName, Et(0),
                               NoName, NoValue, Result("none", NoValue, 1, NoQuery))
    /\ cli' = cli

\* one turn of the loop "while start_date <= end_date"
HorizonRow ==
    /\ hz.pc = "loop"
    /\ Ordinal(hz.start_date) <= Ordinal(hz.end_date)
    /\ LET date_str == hz.start_date
           et == str2et(date_str).value
           r == UtilsPlanetState(hz.args.planet, Et(et))
           row == Row(et, date_str, r.value, r.outcome = "value")
           h == [hz EXCEPT !.prev_month = hz.start_date.month,
                           !.first = IF @ = NoRow THEN row ELSE @,
                           !.prev = hz.row,
                           !.row = row]
       IN  /\ hz' = IF r.outcome = "value"
                    THEN [h EXCEPT !.start_date =
                              AddSeconds(@, hz.reso_num * UnitSeconds(hz.unit))]
                    ELSE Raised(h, "SpiceyError")
           /\ SetKernel(UtilsLoadKernels(Kernel))
           /\ last' = Call("utils.PlanetState", NoValue, NoName, NoName, Et(et),
                           hz.args.planet, NoValue, r)
    /\ cli' = cli

\* the loop is left
HorizonEnd ==
    /\ hz.pc = "loop"
    /\ ~(Ordinal(hz.start_date) <= Ordinal(hz.end_date))
    /\ hz' = [hz EXCEPT !.pc = "done"]
    /\ UNCHANGED <<furnished, loaded, last, cli>>

InitHorizon ==
    /\ furnished = K0.furnished
    /\ loaded = K0.loaded
    /\ last = NoCall
    /\ cli = CliIdle
    /\ \E p \in PlanetArgs, y \in YearArgs, r \in ResoArgs :
           hz = Horizon("start", HzArgs(p, y, r), "", "", 0, NoDate, NoDate, 0,
                        NoRow, NoRow, NoRow)

NextHorizon ==
    \/ HorizonStart
    \/ HorizonRow
    \/ HorizonEnd

\* one run of horizon.py from the command line
SpecHorizon == InitHorizon /\ [][NextHorizon]_vars

(***************************************************************************)
(* Properties of the calls.                                                *)
(***************************************************************************)
\* the epoch of the last call, as the float the toolkit is given
EpochOf(c) == IF c.dt.isStr THEN str2et(c.dt.text) ELSE Ok(c.dt.et)

\* a six-component state rotated by a matrix, position and velocity alike
Rotated(dcm, state) == MatVec(dcm, Upto(state, 3)) \o MatVec(dcm, From(state, 3))

\* C1: converting a state from IAU_Earth to J2000 or EclipJ2000 and back at
\* the same epoch gives the state back, for every state and every epoch the
\* toolkit accepts.
C1_Reversible ==
    (last.fn = "test" /\ EpochOf(last).ok)
        => (last.res.outcome = "value" /\ last.res.value = last.state)

\* C1 happens: a state went to EclipJ2000, changed on the way, and came back
C1_Witness ==
    /\ last.fn = "test"
    /\ last.toFrame = EclipJ2000
    /\ last.state = <<2, -1, 3, 1, 0, -2>>
    /\ last.st # last.state
    /\ last.res.outcome = "value"
    /\ last.res.value = last.state

\* C5: ChgFrame returns a six-component state for every pair of frame names
\* the toolkit accepts; it never returns without a value.
C5_AlwaysReturnsState ==
    (last.fn = "ChgFrame" /\ last.res.outcome # "error")
        => (last.res.outcome = "value" /\ Len(last.res.value) = 6)

\* the body a name cut from a frame stands for: the body of that name, or,
\* when resolved, the Mars barycenter for the name mars in any letter case
C7_Body(name, resolved) ==
    IF resolved /\ Lower(name) = mars THEN Mars_barycenter ELSE name

\* the direction of the origin offset, for either reading of the body
C7_Direction(resolved) ==
    (last.fn = "ChgFrame" /\ last.res.outcome = "value") =>
        LET et == EpochOf(last).value
            dcm == pxform(last.fromFrame, last.toFrame, et).value
        IN  IF StartsWith(last.fromFrame, IAU)
            THEN LET o == spkezr(C7_Body(From(last.fromFrame, 4), resolved), et,
                                 last.toFrame, None, Sun)
                 IN  /\ o.ok
                     /\ last.res.value = VecAdd(Rotated(dcm, last.state), o.value)
            ELSE /\ EndsWith(last.fromFrame, J2000)
                 /\ LET o == spkezr(C7_Body(From(last.toFrame, 4), resolved), et,
                                    last.fromFrame, None, Sun)
                    IN  /\ o.ok
                        /\ last.res.value = Rotated(dcm, VecSub(last.state, o.value))

\* C7 as stated: from an IAU_ frame the result is the rotated state plus the
\* Sun-relative state, in toFrame, of the body named by fromFrame[4:];
\* otherwise, from a frame ending in J2000, it is the rotation of the state
\* minus the Sun-relative state, in fromFrame, of the body named by toFrame[4:].
C7_OriginOfNamedBody == C7_Direction(FALSE)

\* C7, with the body resolved: the same, with the Mars barycenter as the body
\* whenever the name cut from the frame is mars in any letter case.
C7_OriginOfResolvedBody == C7_Direction(TRUE)

\* C7 happens: a heliocentric state is taken to the frame of Mars
C7_Witness ==
    /\ last.fn = "ChgFrame"
    /\ last.fromFrame = EclipJ2000
    /\ last.toFrame = IAU \o mArS
    /\ last.res.outcome = "value"
    /\ last.res.query.targ = Mars_barycenter
    /\ last.res.value # Rotated(pxform(EclipJ2000, IAU \o mArS, EpochOf(last).value).value,
                                last.state)

\* C10: each module furnishes each of its three kernel files at most once,
\* whatever calls are made.
C10_FurnishedOnce == \A m \in Modules : \A k \in Kernels : furnished[m][k] <= 1

\* C2: utils.PlanetState asks the toolkit for the given name with
\* '_barycenter' appended when the lower-cased name is one of mars, jupiter,
\* saturn, neptune, uranus, pluto, and for the given name otherwise, in frame
\* ECLIPJ2000 with observer Sun.
C2_UtilsLookup ==
    (last.fn = "utils.PlanetState" /\ EpochOf(last).ok) =>
        /\ last.res.query.made
        /\ last.res.query.targ =
               (IF Lower(last.planet) \in {mars, jupiter, saturn, neptune, uranus, pluto}
                THEN last.planet \o barycenter
                ELSE last.planet)
        /\ last.res.query.ref = ECLIPJ2000
        /\ last.res.query.obs = Sun

\* C2 happens: a planet of the list, in mixed case, is looked up
C2_Witness ==
    /\ last.fn = "utils.PlanetState"
    /\ last.planet = mArS
    /\ last.res.query.targ = mArS \o barycenter
    /\ last.res.outcome = "value"

\* the planet name a lookup is about
C3_Planet(c) ==
    IF c.fn # "ChgFrame" THEN c.planet
    ELSE IF StartsWith(c.fromFrame, IAU) THEN From(c.fromFrame, 4)
    ELSE From(c.toFrame, 4)

\* C3: every state lookup queries the same body for a planet name P: the
\* barycenter of P when P is, in any letter case, one of mars, jupiter,
\* saturn, neptune, uranus, pluto, and P itself otherwise.
C3_SameSubstitution ==
    last.res.query.made =>
        bodn2c(last.res.query.targ) =
            bodn2c(IF Lower(C3_Planet(last)) \in BARYCENTER_FRAMES
                   THEN C3_Planet(last) \o barycenter
                   ELSE C3_Planet(last))

\* what the command makes of its --state string: the string without its first
\* and last character, cut at the commas
C6_Fields(s) == Split(Inner(s), ",")

\* the --state string parses to exactly six numeric components
C6_ParsesToSix(s) ==
    /\ Len(C6_Fields(s)) = 6
    /\ \A i \in 1..6 : IsFloat(C6_Fields(s)[i])

\* C6: when the --state string does not parse to exactly six numeric
\* components the command fails with a ValueError and ChgFrame is never
\* called; when it does, ChgFrame is called once with the six values in order.
C6_StateValidated ==
    cli.pc \in {"raised", "print", "done"} =>
        IF C6_ParsesToSix(cli.args.state)
        THEN /\ cli.calls = 1
             /\ last.fn = "ChgFrame"
             /\ last.state = [i \in 1..6 |-> Float(C6_Fields(cli.args.state)[i])]
        ELSE /\ cli.exc = "ValueError"
             /\ cli.calls = 0
             /\ last = NoCall

\* C6 happens: a run whose --state has a seventh component is refused
\* before ChgFrame is called
C6_Witness ==
    /\ cli.pc = "raised"
    /\ Len(cli.state) = 7
    /\ cli.exc = "ValueError"
    /\ cli.calls = 0

\* C4: the command applies ChgFrame with the --to value as the frame the
\* state is in and the --from value as the frame it is transformed to.
C4_ToIsSource ==
    cli.calls > 0 => (last.fromFrame = cli.args.to /\ last.toFrame = cli.args.fromF)

\* the --reso argument is a positive whole number followed by d, m or s
C8_WellFormed(reso) ==
    /\ Len(reso) >= 2
    /\ reso[Len(reso)] \in {"d", "m", "s"}
    /\ \A i \in 1..(Len(reso) - 1) : IsDigit(reso[i])
    /\ Decimal(Upto(reso, Len(reso) - 1)) > 0

\* C8: for a --reso of a positive integer n and a unit letter d, m or s, the
\* rows start at January 1 00:00:00 of the year, consecutive rows are n days,
\* minutes or seconds apart, and no row is later than January 1 of the next
\* year; a --reso whose last character is not d, m or s is refused with
\* ValueError before any row is written.
C8_RowSpacing ==
    LET reso == hz.args.reso IN
    /\ (C8_WellFormed(reso) /\ hz.pc \in {"loop", "done", "raised"}) =>
           /\ hz.first # NoRow => hz.first.date = DateTime(IntOf(hz.args.year), 1, 1, 0, 0, 0)
           /\ (hz.prev # NoRow /\ hz.row # NoRow) =>
                  Ordinal(hz.row.date) - Ordinal(hz.prev.date)
                      = Decimal(Upto(reso, Len(reso) - 1)) * UnitSeconds(reso[Len(reso)])
           /\ hz.row # NoRow =>
                  Ordinal(hz.row.date) <= Ordinal(DateTime(IntOf(hz.args.year) + 1, 1, 1, 0, 0, 0))
    /\ (reso # <<>> /\ reso[Len(reso)] \notin {"d", "m", "s"} /\ hz.pc # "start") =>
           (hz.pc = "raised" /\ hz.exc = "ValueError" /\ hz.first = NoRow)

\* C9: the loop of horizon.py terminates for every --year and --reso it
\* accepts: each turn of the loop moves the current date forward, so that it
\* passes January 1 of the following year after finitely many rows.
C9_LoopAdvances ==
    [][(hz.pc = "loop" /\ hz'.pc = "loop")
           => Ordinal(hz'.start_date) > Ordinal(hz.start_date)]_vars

====
